---- MODULE Spec2Model ----
(***************************************************************************)
(* State-machine model of TSServerProxy (src/src/tsserver-proxy.js): the   *)
(* backend process supervisor and the request correlator of volt-lsp.      *)
(*                                                                         *)
(* One action per handler that Node's event loop can run: the public       *)
(* methods called by the host (start, shutdown, openFile, a position       *)
(* request), the child-process 'exit' and 'error' events, a decoded        *)
(* backend message, the 30 s request timer and the 5 s restart timer.      *)
(* Every handler is synchronous up to its first await, so each one is a    *)
(* single atomic step.                                                     *)
(***************************************************************************)
EXTENDS Integers, Sequences, FiniteSets, TLC

\* ---------------------------------------------------------------- bounds
MaxProcs == 2            \* backend processes spawned in one behaviour
MaxReqs  == 3            \* requests accepted in one behaviour
Uris == {"A"}            \* documents the client may open
Contents == {"t1"}       \* document texts
Messages == {"", "boom"} \* `message` of a failed response ("" = absent)
Bodies   == {"b1"}       \* `body` of a successful response

NoProc == 0              \* this.tsserver === null

VARIABLES
    tsserver,         \* this.tsserver: process handle, NoProc when null
    requestId,        \* this.requestId
    pendingRequests,  \* this.pendingRequests: seq -> the promise it settles
    openFiles,        \* this.openFiles: insertion-ordered map, as a sequence
    isRestarting,     \* this.isRestarting
    restartTimers,    \* outstanding setTimeout(..., 5000) callbacks
    promises,         \* unsettled request promises, each with its 30 s timer armed
    procs,            \* spawned child processes: "alive" | "killed" | "exited"
    assigned,         \* the seq of every accepted request, in call order
    settled,          \* the promises the last handler settled, with their outcome
    inert,            \* shutdown() was called and start() was not called since
    owed,             \* an unrequested exit is not yet followed by a spawn attempt
    spawnFailed,      \* the last spawn attempt did not find the executable
    emitted,          \* the events the last handler emitted, in order
    opened,           \* the documents opened and not closed since, with their text
    framer,           \* the framer under test: "none" in a supervisor run
    wire,             \* what the peer wrote and the framer has not yet received
    buffer,           \* this.buffer of the framer
    dispatched,       \* the envelopes the framer handed on, in order
    items,            \* what the peer wrote, item by item
    router,           \* the LSPConnection version under test: "none" elsewhere
    currentRequestId, \* this.currentRequestId of the original version, 0 undefined
    handlers,         \* the requests whose asynchronous handler is still awaiting
    outbox,           \* the responses written: the id they carry, the request they answer
    received,         \* the client messages handled so far
    completed,        \* the requests whose handler has run to its end
    input,            \* what a translation is applied to
    output,           \* what it returned
    now,              \* Date.now()
    returned,         \* what the last call of a service method returned
    provider,         \* the DependencyInfoProvider version under test
    cache,            \* this.cache of the provider: package -> timestamp and data
    profilers,        \* the objects that Logger.profile has returned
    logged,           \* the calls of Logger.debug, in order
    listeners         \* the events whose listener sends a request to the backend

vars == <<tsserver, requestId, pendingRequests, openFiles, isRestarting,
          restartTimers, promises, procs, assigned, settled, inert, owed,
          spawnFailed, emitted, opened, framer, wire, buffer, dispatched,
          items, router, currentRequestId, handlers, outbox, received, completed,
          input, output, now, returned, provider, cache, profilers, logged,
          listeners>>

\* The state of the framers, of the message router and of the translations.
framing == <<framer, wire, buffer, dispatched, items>>

routing == <<router, currentRequestId, handlers, outbox, received, completed>>

translating == <<input, output>>

services == <<now, returned, provider, cache, profilers, logged, listeners>>

\* The state of the components the supervisor does not touch.
aux == <<framing, routing, translating, services>>

\* A component that is not part of a run stays as constructed.
NoFramer ==
    /\ framer = "none"
    /\ wire = <<>>
    /\ buffer = <<>>
    /\ dispatched = <<>>
    /\ items = <<>>

NoRouter ==
    /\ router = "none"
    /\ currentRequestId = 0
    /\ handlers = {}
    /\ outbox = <<>>
    /\ received = 0
    /\ completed = {}

NoTranslation ==
    /\ input = [feature |-> "none"]
    /\ output = [feature |-> "none"]

NoServices ==
    /\ now = 0
    /\ returned = [n |-> 0]
    /\ provider = "none"
    /\ cache = <<>>
    /\ profilers = <<>>
    /\ logged = <<>>
    /\ listeners = {}

\* The part of the state that sendTSServerRequest reads and writes; lost counts
\* the calls that one handler run had rejected by the guard.
Corr == [requestId |-> requestId, pendingRequests |-> pendingRequests,
         promises |-> promises, assigned |-> assigned, settled |-> {},
         lost |-> 0]

\* ------------------------------------------------------------- helpers
Range(f) == {f[k] : k \in DOMAIN f}

Remove(f, k) == [x \in (DOMAIN f) \ {k} |-> f[x]]

RemoveAll(f, ks) == [x \in (DOMAIN f) \ ks |-> f[x]]

Put(f, k, v) == [x \in (DOMAIN f) \cup {k} |-> IF x = k THEN v ELSE f[x]]

EmptyMap == [x \in {} |-> 0]

\* Map.prototype.set on the insertion-ordered openFiles map: an existing key
\* keeps its position, a new key is appended.
MapSet(files, uri, content) ==
    IF \E i \in 1..Len(files) : files[i].uri = uri
    THEN [i \in 1..Len(files) |->
             IF files[i].uri = uri THEN [uri |-> uri, content |-> content]
             ELSE files[i]]
    ELSE Append(files, [uri |-> uri, content |-> content])

\* What settles a promise when no backend message does (a timer, an exit).
NoMessage ==
    [type |-> "none", request_seq |-> 0, success |-> FALSE,
     body |-> "", message |-> ""]

\* The outcome of promise i of the table proms: kind is "resolved", "rejected",
\* "timeout" or "exited"; by is the backend message that settled it and from
\* the process that emitted the message; stale tells that this process is dead
\* and older than the process the request was written to.
Outcome(proms, i, kind, val, from, by) ==
    [id |-> i, seq |-> proms[i].seq, origin |-> proms[i].origin,
     kind |-> kind, val |-> val, by |-> by,
     stale |-> (from # NoProc /\ from < proms[i].proc
                /\ procs[from].status # "alive")]

\* ------------------------------------------------- sendTSServerRequest
\* line 251: the guard of sendTSServerRequest
Available(ts, restarting) == ts # NoProc /\ ~restarting

NextRequestId_Narrow(rid) == (rid % 2) + 1

\* line 255: const requestId = ++this.requestId
NextRequestId(rid) == rid + 1

SendTSServerRequest_CountsFirst(c, ts, restarting, command, uri, origin, cont) ==
    IF ~Available(ts, restarting)
    THEN [c EXCEPT !.requestId = NextRequestId(c.requestId), !.lost = @ + 1]
    ELSE LET seq == NextRequestId(c.requestId)
             id  == Len(c.assigned) + 1
         IN  [c EXCEPT !.requestId = seq,
                       !.assigned = Append(@, seq),
                       !.promises = Put(@, id, [seq |-> seq, command |-> command,
                                                uri |-> uri, origin |-> origin,
                                                cont |-> cont, proc |-> ts]),
                       !.pendingRequests = Put(@, seq, id)]

\* lines 250-283.  A rejected call returns Promise.reject and touches nothing;
\* an accepted call takes the next seq, writes the request to the stdin of the
\* current process (proc), creates the promise with its 30 s timer and
\* registers the pending entry whose resolve/reject settle that promise.
SendTSServerRequest(c, ts, restarting, command, uri, origin, cont) ==
    IF ~Available(ts, restarting)
    THEN [c EXCEPT !.lost = @ + 1]
    ELSE LET seq == NextRequestId(c.requestId)
             id  == Len(c.assigned) + 1
         IN  [c EXCEPT !.requestId = seq,
                       !.assigned = Append(@, seq),
                       !.promises = Put(@, id, [seq |-> seq, command |-> command,
                                                uri |-> uri, origin |-> origin,
                                                cont |-> cont, proc |-> ts]),
                       !.pendingRequests = Put(@, seq, id)]

\* Writes the correlator record back into the variables.
Store(c) ==
    /\ requestId' = c.requestId
    /\ pendingRequests' = c.pendingRequests
    /\ promises' = c.promises
    /\ assigned' = c.assigned
    /\ settled' = c.settled

\* ------------------------------------------------------------ the state
Init ==
    /\ tsserver = NoProc
    /\ requestId = 0
    /\ pendingRequests = EmptyMap
    /\ openFiles = <<>>
    /\ isRestarting = FALSE
    /\ restartTimers = 0
    /\ promises = EmptyMap
    /\ procs = <<>>
    /\ assigned = <<>>
    /\ settled = {}
    /\ inert = FALSE
    /\ owed = FALSE
    /\ spawnFailed = FALSE
    /\ emitted = <<>>
    /\ opened = EmptyMap
    /\ NoFramer
    /\ NoRouter
    /\ NoTranslation
    /\ NoServices

\* Keeps the bounded model from starving the restart timer: every outstanding
\* timer has a process slot and a request slot left for the spawn it makes.
BudgetWithin(maxProcs) ==
    /\ Len(procs) + restartTimers <= maxProcs
    /\ Len(assigned) + restartTimers <= MaxReqs

Budget == BudgetWithin(MaxProcs)

\* ChildProcess.kill(): the process dies, its 'exit' event is delivered later.
Kill(ps, ts) ==
    IF ts # NoProc /\ ps[ts].status = "alive"
    THEN [ps EXCEPT ![ts].status = "killed"]
    ELSE ps

\* --------------------------------------------------------- _spawnTSServer
\* lines 82-84: the replay loop.  Each openFile call (lines 297-311) runs up
\* to its first await: it sends the `open` request of one document; the
\* `geterr` request follows when that `open` resolves.
RECURSIVE Replay(_, _, _, _, _)
Replay(c, ts, restarting, files, i) ==
    IF i > Len(files) THEN c
    ELSE Replay(SendTSServerRequest(c, ts, restarting, "open", files[i].uri,
                                    "supervisor", "geterr"),
                ts, restarting, files, i + 1)

\* line 85: emit('restarted') runs the listeners before line 86 resets
\* isRestarting; a listener that sends a request calls sendTSServerRequest.
Restarted(c, ts, restarting) ==
    IF "restarted" \in listeners
    THEN SendTSServerRequest(c, ts, restarting, "quickinfo", "", "listener",
                             "none")
    ELSE c

\* lines 25-88.  found: whether findTSServer() located the executable.
SpawnTSServer(found) ==
    LET killed == Kill(procs, tsserver)
        p      == Len(procs) + 1
        c1     == SendTSServerRequest(Corr, p, isRestarting, "configure", "",
                                      "supervisor", "none")
        c2     == IF isRestarting
                  THEN Replay(c1, p, isRestarting, openFiles, 1)
                  ELSE c1
        c3     == IF isRestarting
                  THEN Restarted(c2, p, isRestarting)
                  ELSE c2
    IN  IF ~found
        THEN /\ procs' = killed
             /\ spawnFailed' = TRUE
             /\ settled' = {}
             /\ emitted' = <<"error">>
             /\ UNCHANGED <<tsserver, requestId, pendingRequests, openFiles,
                            isRestarting, promises, assigned>>
        ELSE /\ procs' = Append(killed, [status |-> "alive",
                                         restart |-> isRestarting,
                                         lost |-> c3.lost])
             /\ tsserver' = p
             /\ Store(c3)
             /\ emitted' = IF isRestarting THEN <<"restarted">> ELSE <<>>
             /\ isRestarting' = FALSE
             /\ spawnFailed' = FALSE
             /\ UNCHANGED openFiles

\* lines 32-36: the attempt returns; no timer is set for another one.
RetryAfterNotFound(n) == n

\* lines 20-23: an explicit start() call of the host, in a behaviour of at
\* most maxProcs processes.
StartWithin(maxProcs) ==
    /\ Len(procs) + restartTimers < maxProcs
    /\ \E found \in BOOLEAN : SpawnTSServer(found)
    /\ inert' = FALSE
    /\ owed' = FALSE
    /\ restartTimers' = IF spawnFailed' THEN RetryAfterNotFound(restartTimers)
                        ELSE restartTimers
    /\ BudgetWithin(maxProcs)'
    /\ UNCHANGED <<opened, aux>>

Start == StartWithin(MaxProcs)

\* lines 101-104: the restart timer fires and calls start().
RestartTimerFireWithin(maxProcs) ==
    /\ restartTimers > 0
    /\ \E found \in BOOLEAN : SpawnTSServer(found)
    /\ restartTimers' = IF spawnFailed'
                        THEN RetryAfterNotFound(restartTimers - 1)
                        ELSE restartTimers - 1
    /\ owed' = FALSE
    /\ UNCHANGED inert
    /\ BudgetWithin(maxProcs)'
    /\ UNCHANGED <<opened, aux>>

RestartTimerFire == RestartTimerFireWithin(MaxProcs)

\* --------------------------------------------------- _handleUnexpectedExit
\* line 98: every pending entry's reject wrapper runs: it clears the entry's
\* timer and rejects its promise with the same Error.
RejectAll(proms, pend) ==
    {Outcome(proms, i, "exited", "TSServer process exited.", NoProc,
             NoMessage) :
        i \in Range(pend) \cap DOMAIN proms}

ClearPending_Forgotten(pend) == pend

\* line 99: this.pendingRequests.clear()
ClearPending(pend) == EmptyMap

ScheduleRestart_Never(n) == n

\* lines 101-104: setTimeout(() => this.start(), 5000)
ScheduleRestart(n) == n + 1

\* lines 54-61 and 90-105: the 'exit' event of process p.  The handler clears
\* this.tsserver whichever process the handle names, then runs
\* _handleUnexpectedExit, which has no await and so runs to its end.
ExitWithin(p, maxProcs) ==
    /\ p \in 1..Len(procs)
    /\ procs[p].status # "exited"
    /\ procs' = [procs EXCEPT ![p].status = "exited"]
    /\ tsserver' = NoProc
    /\ IF isRestarting
       THEN /\ settled' = {}
            /\ emitted' = <<"exit">>
            /\ UNCHANGED <<isRestarting, pendingRequests, promises,
                           restartTimers>>
       ELSE /\ isRestarting' = TRUE
            /\ emitted' = <<"exit", "restarting">>
            /\ settled' = RejectAll(promises, pendingRequests)
            /\ promises' = RemoveAll(promises, Range(pendingRequests))
            /\ pendingRequests' = ClearPending(pendingRequests)
            /\ restartTimers' = ScheduleRestart(restartTimers)
    /\ owed' = (owed \/ procs[p].status = "alive")
    /\ UNCHANGED <<requestId, openFiles, assigned, inert, spawnFailed>>
    /\ BudgetWithin(maxProcs)'
    /\ UNCHANGED <<opened, aux>>

Exit(p) == ExitWithin(p, MaxProcs)

\* lines 63-67: the 'error' event of process p (it could not be spawned or
\* killed); the handle is cleared, nothing is rejected, no restart is made.
ProcError(p) ==
    /\ p \in 1..Len(procs)
    /\ procs[p].status # "exited"
    /\ tsserver' = NoProc
    /\ settled' = {}
    /\ emitted' = <<"error">>
    /\ UNCHANGED <<requestId, pendingRequests, openFiles, isRestarting,
                   restartTimers, promises, procs, assigned, inert, owed,
                   spawnFailed>>
    /\ UNCHANGED <<opened, aux>>

\* lines 490-499
Shutdown ==
    /\ procs' = Kill(procs, tsserver)
    /\ tsserver' = NoProc
    /\ pendingRequests' = EmptyMap
    /\ inert' = TRUE
    /\ settled' = {}
    /\ emitted' = <<>>
    /\ UNCHANGED <<requestId, openFiles, isRestarting, restartTimers, promises,
                   assigned, owed, spawnFailed>>
    /\ UNCHANGED <<opened, aux>>

\* ------------------------------------------------------ client operations
\* lines 365-373 (getHover; getCompletions, getDefinition and getCodeActions
\* forward one request the same way).
ClientRequest ==
    /\ Store(SendTSServerRequest(Corr, tsserver, isRestarting, "quickinfo", "",
                                 "client", "none"))
    /\ emitted' = <<>>
    /\ UNCHANGED <<tsserver, openFiles, isRestarting, restartTimers, procs,
                   inert, owed, spawnFailed>>
    /\ Budget'
    /\ UNCHANGED <<opened, aux>>

\* lines 297-311, up to the first await.
OpenFile(uri, content) ==
    /\ openFiles' = MapSet(openFiles, uri, content)
    /\ Store(SendTSServerRequest(Corr, tsserver, isRestarting, "open", uri,
                                 "client", "geterr"))
    /\ emitted' = <<>>
    /\ opened' = Put(opened, uri, content)
    /\ UNCHANGED <<tsserver, isRestarting, restartTimers, procs, inert, owed,
                   spawnFailed>>
    /\ Budget'
    /\ UNCHANGED aux

\* ------------------------------------------------- handleTSServerResponse
MatchEntry_Oldest(pend, rs) ==
    IF DOMAIN pend = {} THEN 0
    ELSE CHOOSE k \in DOMAIN pend : \A j \in DOMAIN pend : k <= j

\* line 191: this.pendingRequests.get(response.request_seq); 0 when undefined
MatchEntry(pend, rs) == IF rs \in DOMAIN pend THEN rs ELSE 0

\* line 198: response.message || 'TSServer request failed'
ErrorMessage(msg) == IF msg = "" THEN "TSServer request failed" ELSE msg

\* The decoded backend messages the model feeds to the proxy.  No request is
\* ever given the seq MaxReqs + 1: a response that carries it is the response
\* nobody waits for (line 191 finds no entry).
Responses ==
    {[type |-> "response", request_seq |-> rs, success |-> TRUE,
      body |-> b, message |-> ""] : rs \in 1..(MaxReqs + 1), b \in Bodies}
    \cup
    {[type |-> "response", request_seq |-> rs, success |-> FALSE,
      body |-> "", message |-> m] : rs \in 1..MaxReqs, m \in Messages}
    \cup
    {[type |-> "event", request_seq |-> 0, success |-> FALSE,
      body |-> "", message |-> ""]}

\* lines 187-204, for one decoded message received from process p, followed by
\* the continuation of the async caller that awaited the settled request
\* (openFile and updateFile send `geterr` once their first request resolves).
HandleTSServerResponse(p, response) ==
    /\ p \in 1..Len(procs)
    /\ response.request_seq \in {0, MaxReqs + 1} \cup DOMAIN pendingRequests
    /\ LET key == IF response.type = "response"
                  THEN MatchEntry(pendingRequests, response.request_seq)
                  ELSE 0
       IN  IF key = 0
           THEN /\ settled' = {}
                /\ UNCHANGED <<requestId, pendingRequests, promises, assigned>>
           ELSE LET id   == pendingRequests[key]
                    live == id \in DOMAIN promises
                    c1   == [Corr EXCEPT
                               !.pendingRequests = Remove(@, key),
                               !.promises = Remove(@, id),
                               !.settled =
                                  IF ~live THEN {}
                                  ELSE IF response.success
                                  THEN {Outcome(promises, id, "resolved",
                                                response.body, p, response)}
                                  ELSE {Outcome(promises, id, "rejected",
                                                ErrorMessage(response.message),
                                                p, response)}]
                    c2   == IF live /\ response.success
                               /\ promises[id].cont = "geterr"
                            THEN SendTSServerRequest(c1, tsserver, isRestarting,
                                                     "geterr", promises[id].uri,
                                                     promises[id].origin, "none")
                            ELSE c1
                IN  Store(c2)
    /\ emitted' = <<>>
    /\ UNCHANGED <<tsserver, openFiles, isRestarting, restartTimers, procs,
                   inert, owed, spawnFailed>>
    /\ Budget'
    /\ UNCHANGED <<opened, aux>>

\* --------------------------------------------------------- request timer
TimeoutDelete_All(pend, seq) == EmptyMap

\* line 268: this.pendingRequests.delete(requestId)
TimeoutDelete(pend, seq) == Remove(pend, seq)

TimeoutFire_IfPending(i) ==
    /\ i \in DOMAIN promises
    /\ promises[i].seq \in DOMAIN pendingRequests
    /\ pendingRequests' = TimeoutDelete(pendingRequests, promises[i].seq)
    /\ settled' = {Outcome(promises, i, "timeout", "TSServer request timeout",
                           NoProc, NoMessage)}
    /\ promises' = Remove(promises, i)
    /\ emitted' = <<>>
    /\ UNCHANGED <<tsserver, requestId, openFiles, isRestarting, restartTimers,
                   procs, assigned, inert, owed, spawnFailed>>
    /\ UNCHANGED <<opened, aux>>

\* lines 267-270: the 30 s timer of promise i fires.
TimeoutFire(i) ==
    /\ i \in DOMAIN promises
    /\ pendingRequests' = TimeoutDelete(pendingRequests, promises[i].seq)
    /\ settled' = {Outcome(promises, i, "timeout", "TSServer request timeout",
                           NoProc, NoMessage)}
    /\ promises' = Remove(promises, i)
    /\ emitted' = <<>>
    /\ UNCHANGED <<tsserver, requestId, openFiles, isRestarting, restartTimers,
                   procs, assigned, inert, owed, spawnFailed>>
    /\ UNCHANGED <<opened, aux>>

\* ------------------------------------------------------ the specification
Next ==
    \/ Start
    \/ RestartTimerFire
    \/ \E p \in 1..MaxProcs : Exit(p)
    \/ \E p \in 1..MaxProcs : ProcError(p)
    \/ Shutdown
    \/ ClientRequest
    \/ \E u \in Uris, t \in Contents : OpenFile(u, t)
    \/ \E p \in 1..MaxProcs, r \in Responses : HandleTSServerResponse(p, r)
    \/ \E i \in 1..MaxReqs : TimeoutFire(i)

Spec == Init /\ [][Next]_vars

\* The event loop runs a timer callback that is due: the restart timer fires.
FairSpec == Spec /\ WF_vars(RestartTimerFire)

\* The event loop runs every timer callback that is due: the 30 s timer of a
\* request that is not settled fires.
TimerNext ==
    \/ Start
    \/ RestartTimerFire
    \/ \E p \in 1..MaxProcs : Exit(p)
    \/ Shutdown
    \/ ClientRequest
    \/ \E p \in 1..MaxProcs, r \in Responses : HandleTSServerResponse(p, r)
    \/ \E i \in 1..MaxReqs : TimeoutFire(i)

TimerSpec ==
    Init /\ [][TimerNext]_vars /\ \A i \in 1..MaxReqs : WF_vars(TimeoutFire(i))

TypeOK ==
    /\ tsserver \in 0..Len(procs)
    /\ requestId \in Nat
    /\ isRestarting \in BOOLEAN
    /\ restartTimers \in Nat
    /\ Range(pendingRequests) \subseteq 1..Len(assigned)
    /\ DOMAIN promises \subseteq 1..Len(assigned)
    /\ \A i \in 1..Len(procs) : procs[i].status \in {"alive", "killed", "exited"}
    /\ \A i \in 1..Len(openFiles) : openFiles[i].uri \in Uris
    /\ Budget

\* ==================================================== transport framers
\* Text is a sequence of units.  A unit is one UTF-16 code unit of a JS string,
\* except that the field name and its colon are one unit each; on the wire
\* from the backend a unit is one byte.
Separator == <<"\r", "\n", "\r", "\n">>

Digits == <<"0", "1", "2", "3", "4", "5", "6", "7", "8", "9">>

IsDigit(u) == \E d \in 1..10 : Digits[d] = u

DigitValue(u) == (CHOOSE d \in 1..10 : Digits[d] = u) - 1

\* String.prototype.substring(from, to) and substring(from), 0-based.
Substring(text, from, to) ==
    SubSeq(text, from + 1, IF to > Len(text) THEN Len(text) ELSE to)

SubstringFrom(text, from) == SubSeq(text, from + 1, Len(text))

\* String.prototype.indexOf(pat): 0-based, -1 when absent.
IndexOf(text, pat) ==
    LET at == {i \in 0..(Len(text) - Len(pat)) :
                  SubSeq(text, i + 1, i + Len(pat)) = pat}
    IN  IF at = {} THEN -1 ELSE CHOOSE i \in at : \A j \in at : i <= j

\* parseInt(digits, 10)
RECURSIVE ParseInt(_)
ParseInt(ds) ==
    IF ds = <<>> THEN 0
    ELSE 10 * ParseInt(SubSeq(ds, 1, Len(ds) - 1)) + DigitValue(ds[Len(ds)])

\* The decimal digits of n, as template literals print a number.
RECURSIVE ToDigits(_)
ToDigits(n) ==
    IF n < 10 THEN <<Digits[n + 1]>>
    ELSE ToDigits(n \div 10) \o <<Digits[(n % 10) + 1]>>

\* /Content-Length: (\d+)/ on a header: the digits captured at the first
\* match, <<>> when there is no match.
ContentLengthMatch(header) ==
    LET at == {i \in 1..(Len(header) - 2) :
                  /\ header[i] = "Content-Length"
                  /\ header[i + 1] = ": "
                  /\ IsDigit(header[i + 2])}
    IN  IF at = {} THEN <<>>
        ELSE LET i    == CHOOSE x \in at : \A y \in at : x <= y
                 stop == CHOOSE e \in (i + 2)..Len(header) :
                            /\ \A k \in (i + 2)..e : IsDigit(header[k])
                            /\ e = Len(header) \/ ~IsDigit(header[e + 1])
             IN  SubSeq(header, i + 2, stop)

\* ------------------------------------------------------------ JSON, UTF-8
\* The characters a payload may hold besides its braces: an ASCII letter, a
\* two-byte letter, and U+FFFD, which decoding puts in place of a broken
\* byte sequence.
Chars == {"a", "b", "U+00E9", "U+FFFD"}

IsSpace(u) == u \in {"\r", "\n"}

\* String.prototype.trim()
RECURSIVE Trim(_)
Trim(text) ==
    IF text = <<>> THEN <<>>
    ELSE IF IsSpace(text[1]) THEN Trim(Tail(text))
    ELSE IF IsSpace(text[Len(text)]) THEN Trim(SubSeq(text, 1, Len(text) - 1))
    ELSE text

\* JSON.stringify of an envelope: the envelope is named by the one character
\* its text holds.
JSONStringify(env) == <<"{", env, "}">>

\* JSON.parse: ok is FALSE where it throws.
JSONParse(text) ==
    LET t == Trim(text)
    IN  IF Len(t) = 3 /\ t[1] = "{" /\ t[3] = "}" /\ t[2] \in Chars
        THEN [ok |-> TRUE, value |-> t[2]]
        ELSE [ok |-> FALSE, value |-> ""]

UnitBytes(u) == IF u = "U+00E9" THEN 2 ELSE IF u = "U+FFFD" THEN 3 ELSE 1

\* Buffer.byteLength(text, 'utf8')
RECURSIVE ByteLength(_)
ByteLength(text) ==
    IF text = <<>> THEN 0 ELSE UnitBytes(text[1]) + ByteLength(Tail(text))

\* The UTF-8 bytes of a text (U+00E9 is C3 A9, U+FFFD is EF BF BD).
RECURSIVE Bytes(_)
Bytes(text) ==
    IF text = <<>> THEN <<>>
    ELSE (IF text[1] = "U+00E9" THEN <<"C3", "A9">>
          ELSE IF text[1] = "U+FFFD" THEN <<"EF", "BF", "BD">>
          ELSE <<text[1]>>) \o Bytes(Tail(text))

\* Buffer.prototype.toString() of one chunk: every byte sequence that is not
\* a whole character within the chunk becomes U+FFFD.
RECURSIVE BufferToString(_)
BufferToString(data) ==
    IF data = <<>> THEN <<>>
    ELSE IF Len(data) >= 2 /\ data[1] = "C3" /\ data[2] = "A9"
    THEN <<"U+00E9">> \o BufferToString(SubSeq(data, 3, Len(data)))
    ELSE IF Len(data) >= 3 /\ data[1] = "EF" /\ data[2] = "BF" /\ data[3] = "BD"
    THEN <<"U+FFFD">> \o BufferToString(SubSeq(data, 4, Len(data)))
    ELSE IF Len(data) >= 2 /\ data[1] = "EF" /\ data[2] = "BF"
    THEN <<"U+FFFD">> \o BufferToString(SubSeq(data, 3, Len(data)))
    ELSE IF data[1] \in {"C3", "A9", "EF", "BF", "BD"}
    THEN <<"U+FFFD">> \o BufferToString(Tail(data))
    ELSE <<data[1]>> \o BufferToString(Tail(data))

\* ------------------------------------------------------------- the framers
\* LSPConnection.sendMessage: the header carries the byte length of the text.
SendMessage(content) ==
    <<"Content-Length", ": ">> \o ToDigits(ByteLength(content))
        \o Separator \o content

\* LSPConnection.handleIncomingData, the loop from one buffer content on.
\* version "original" stops at a header without Content-Length, version
\* "final" drops that header and goes on.  out collects the messages handed
\* to handleMessage.
RECURSIVE IncomingLoop(_, _, _)
IncomingLoop(version, buf, out) ==
    LET headerEndIndex == IndexOf(buf, Separator)
    IN  IF headerEndIndex = -1 THEN [buffer |-> buf, out |-> out]
        ELSE
        LET header             == Substring(buf, 0, headerEndIndex)
            contentLengthMatch == ContentLengthMatch(header)
            contentLength      == ParseInt(contentLengthMatch)
            messageStart       == headerEndIndex + 4
        IN  IF contentLengthMatch = <<>>
            THEN IF version = "original"
                 THEN [buffer |-> buf, out |-> out]
                 ELSE IncomingLoop(version,
                                   SubstringFrom(buf, headerEndIndex + 4), out)
            ELSE IF Len(buf) < messageStart + contentLength
            THEN [buffer |-> buf, out |-> out]
            ELSE LET messageContent ==
                         Substring(buf, messageStart, messageStart + contentLength)
                     message == JSONParse(messageContent)
                 IN  IncomingLoop(version,
                                  SubstringFrom(buf, messageStart + contentLength),
                                  IF message.ok THEN Append(out, message.value)
                                  ELSE out)

HandleIncomingData(version, buf, chunk) == IncomingLoop(version, buf \o chunk, <<>>)

\* String.prototype.split('\n')
RECURSIVE Split(_)
Split(text) ==
    LET i == IndexOf(text, <<"\n">>)
    IN  IF i = -1 THEN <<text>>
        ELSE <<Substring(text, 0, i)>> \o Split(SubstringFrom(text, i + 1))

\* lines 172-181: every non-blank line that parses is handed on.
RECURSIVE ParseLines(_, _)
ParseLines(lines, out) ==
    IF lines = <<>> THEN out
    ELSE LET response == JSONParse(lines[1])
         IN  ParseLines(Tail(lines),
                        IF Trim(lines[1]) # <<>> /\ response.ok
                        THEN Append(out, response.value) ELSE out)

\* TSServerProxy.handleTSServerOutput, the loop of lines 144-184.
RECURSIVE OutputLoop(_, _)
OutputLoop(buf, out) ==
    LET separatorIndex == IndexOf(buf, Separator)
    IN  IF separatorIndex = -1 THEN [buffer |-> buf, out |-> out]
        ELSE
        LET headerPart         == Substring(buf, 0, separatorIndex)
            contentLengthMatch == ContentLengthMatch(headerPart)
            contentLength      == ParseInt(contentLengthMatch)
            messageStart       == separatorIndex + Len(Separator)
        IN  IF contentLengthMatch # <<>>
            THEN IF Len(buf) >= messageStart + contentLength
                 THEN LET messagePart ==
                              Substring(buf, messageStart,
                                        messageStart + contentLength)
                          response == JSONParse(messagePart)
                      IN  OutputLoop(SubstringFrom(buf, messageStart + contentLength),
                                     IF response.ok
                                     THEN Append(out, response.value) ELSE out)
                 ELSE [buffer |-> buf, out |-> out]
            ELSE LET lines == Split(buf)
                 IN  [buffer |-> lines[Len(lines)],
                      out    |-> ParseLines(SubSeq(lines, 1, Len(lines) - 1), out)]

HandleTSServerOutput_NewestFirst(buf, data) ==
    LET r == OutputLoop(buf \o BufferToString(data), <<>>)
    IN  [buffer |-> r.buffer,
         out    |-> [n \in 1..Len(r.out) |-> r.out[Len(r.out) + 1 - n]]]

\* line 140: this.buffer += data.toString()
HandleTSServerOutput(buf, data) == OutputLoop(buf \o BufferToString(data), <<>>)

\* ------------------------------------------------ a framer and its peer
MaxItems == 2            \* items the peer writes in one behaviour

Framers == {"backend", "original", "final"}

Envs == {"a", "b", "U+00E9"}

\* What a peer may write: a well-formed frame, a frame whose payload is not
\* JSON, a header block without Content-Length, and, from the backend only, a
\* JSON document or other text on a line of its own.
ItemsOf(fr) ==
    {[kind |-> "frame", env |-> e] : e \in Envs}
    \cup {[kind |-> "garbled", env |-> "a"], [kind |-> "headerless", env |-> "a"]}
    \cup (IF fr = "backend"
          THEN {[kind |-> "line", env |-> "a"], [kind |-> "noise", env |-> "a"]}
          ELSE {})

ItemText(item) ==
    CASE item.kind = "frame"      -> SendMessage(JSONStringify(item.env))
      [] item.kind = "garbled"    -> SendMessage(<<"{", item.env>>)
      [] item.kind = "headerless" -> <<"Other-Header">> \o Separator
      [] item.kind = "line"       -> JSONStringify(item.env) \o <<"\n">>
      [] item.kind = "noise"      -> <<"{", item.env, "\n">>

\* What arrives for one item: bytes from the backend's stdout, decoded text
\* from stdin (process.stdin.setEncoding('utf8')).
OnWire(fr, item) ==
    IF fr = "backend" THEN Bytes(ItemText(item)) ELSE ItemText(item)

RECURSIVE WireOf(_, _)
WireOf(fr, its) ==
    IF its = <<>> THEN <<>> ELSE OnWire(fr, its[1]) \o WireOf(fr, Tail(its))

\* The supervisor's part of the state.
supervisor == <<tsserver, requestId, pendingRequests, openFiles, isRestarting,
                restartTimers, promises, procs, assigned, settled, inert, owed,
                spawnFailed, emitted, opened>>

\* The supervisor before start().
NoSupervisor ==
    /\ tsserver = NoProc
    /\ requestId = 0
    /\ pendingRequests = EmptyMap
    /\ openFiles = <<>>
    /\ isRestarting = FALSE
    /\ restartTimers = 0
    /\ promises = EmptyMap
    /\ procs = <<>>
    /\ assigned = <<>>
    /\ settled = {}
    /\ inert = FALSE
    /\ owed = FALSE
    /\ spawnFailed = FALSE
    /\ emitted = <<>>
    /\ opened = EmptyMap

FramerInit ==
    /\ NoSupervisor
    /\ NoServices
    /\ NoRouter
    /\ NoTranslation
    /\ framer \in Framers
    /\ \E n \in 1..MaxItems : items \in [1..n -> ItemsOf(framer)]
    /\ wire = WireOf(framer, items)
    /\ buffer = <<>>
    /\ dispatched = <<>>

\* One 'data' event: the next n units of the wire arrive as one chunk.
Feed ==
    \E n \in 1..Len(wire) :
        LET chunk == SubSeq(wire, 1, n)
            r     == IF framer = "backend"
                     THEN HandleTSServerOutput(buffer, chunk)
                     ELSE HandleIncomingData(framer, buffer, chunk)
        IN  /\ wire' = SubSeq(wire, n + 1, Len(wire))
            /\ buffer' = r.buffer
            /\ dispatched' = dispatched \o r.out
            /\ UNCHANGED <<framer, items, supervisor, routing, translating, services>>

FramerNext == Feed

FramerSpec == FramerInit /\ [][FramerNext]_vars

\* Units of the wire delivered so far, and the units of the first k items.
Delivered == Len(WireOf(framer, items)) - Len(wire)

UpTo(k) == Len(WireOf(framer, SubSeq(items, 1, k)))

\* The envelopes carried by the items of one kind among the first k items.
RECURSIVE EnvsOf(_, _, _)
EnvsOf(its, k, kind) ==
    IF k = 0 THEN <<>>
    ELSE EnvsOf(its, k - 1, kind)
           \o (IF its[k].kind = kind THEN <<its[k].env>> ELSE <<>>)

\* The number of items that have arrived whole.
Whole ==
    CHOOSE k \in 0..Len(items) :
        /\ UpTo(k) <= Delivered
        /\ k < Len(items) => Delivered < UpTo(k + 1)

\* What has arrived of the item that is still incomplete.
Partial == SubSeq(WireOf(framer, items), UpTo(Whole) + 1, Delivered)

\* ------------------------------------------------------ the message router
MaxMsgs == 4             \* messages the client sends in one behaviour

Routers == {"original", "final"}

Undefined == 0           \* message.id of a notification

\* handleMessage up to the emit: the original version keeps the id of every
\* request and notification in this.currentRequestId, the final version hands
\* it to the handler.
HandleMessage(id) ==
    IF router = "original" THEN id ELSE currentRequestId

\* sendResponse as a handler serving request id calls it: the original version
\* answers with this.currentRequestId, or not at all when it is undefined, and
\* clears it; the final version answers with the id the handler was given.
SendResponse(cur, box, id) ==
    IF router = "original"
    THEN IF cur = Undefined
         THEN [currentRequestId |-> cur, outbox |-> box]
         ELSE [currentRequestId |-> Undefined,
               outbox |-> Append(box, [id |-> cur, for |-> id])]
    ELSE IF id = Undefined
         THEN [currentRequestId |-> cur, outbox |-> box]
         ELSE [currentRequestId |-> cur,
               outbox |-> Append(box, [id |-> id, for |-> id])]

RouterInit ==
    /\ NoSupervisor
    /\ NoServices
    /\ NoFramer
    /\ NoTranslation
    /\ router \in Routers
    /\ currentRequestId = Undefined
    /\ handlers = {}
    /\ outbox = <<>>
    /\ received = 0
    /\ completed = {}

\* A request whose handler answers before it returns (initialize).
RequestSync ==
    /\ received < MaxMsgs
    /\ LET id == received + 1
           r  == SendResponse(HandleMessage(id), outbox, id)
       IN  /\ received' = id
           /\ currentRequestId' = r.currentRequestId
           /\ outbox' = r.outbox
           /\ completed' = completed \cup {id}
    /\ UNCHANGED <<router, handlers, supervisor, framing, translating, services>>

\* A request whose handler awaits the backend before it answers.
RequestAsync ==
    /\ received < MaxMsgs
    /\ LET id == received + 1
       IN  /\ received' = id
           /\ currentRequestId' = HandleMessage(id)
           /\ handlers' = handlers \cup {id}
    /\ UNCHANGED <<router, outbox, completed, supervisor, framing, translating, services>>

\* A notification: its handler sends nothing.
Notification ==
    /\ received < MaxMsgs
    /\ received' = received + 1
    /\ currentRequestId' = HandleMessage(Undefined)
    /\ UNCHANGED <<router, handlers, outbox, completed, supervisor, framing,
                   translating, services>>

\* The awaited call of a handler settles and the handler answers.
Complete(id) ==
    /\ id \in handlers
    /\ LET r == SendResponse(currentRequestId, outbox, id)
       IN  /\ currentRequestId' = r.currentRequestId
           /\ outbox' = r.outbox
    /\ handlers' = handlers \ {id}
    /\ completed' = completed \cup {id}
    /\ UNCHANGED <<router, received, supervisor, framing, translating, services>>

RouterNext ==
    \/ RequestSync
    \/ RequestAsync
    \/ Notification
    \/ \E id \in 1..MaxMsgs : Complete(id)

RouterSpec == RouterInit /\ [][RouterNext]_vars

\* ------------------------------------------------- coordinate translation
MaxLine == 5             \* backend lines run from 1 to MaxLine
MaxOffset == 10          \* backend offsets run from 1 to MaxOffset

Features == {"diagnostics", "hover", "definition", "codeFix"}

\* A client position as the request methods send it to the backend.
ToBackend(position) ==
    [line |-> position.line + 1, offset |-> position.character + 1]

\* The range arguments of getCodeFixes.
CodeFixArgs(range) ==
    [startLine |-> range.start.line + 1,
     startOffset |-> range.start.character + 1,
     endLine |-> range.end.line + 1,
     endOffset |-> range.end.character + 1]

DiagnosticRange_OffsetKept(diag) ==
    [start |-> [line |-> diag.start.line - 1, character |-> diag.start.offset],
     end   |-> [line |-> diag.end.line - 1, character |-> diag.end.offset]]

DiagnosticRange(diag) ==
    [start |-> [line |-> diag.start.line - 1, character |-> diag.start.offset - 1],
     end   |-> [line |-> diag.end.line - 1, character |-> diag.end.offset - 1]]

HoverRange(result) ==
    [start |-> [line |-> result.start.line - 1, character |-> result.start.offset - 1],
     end   |-> [line |-> result.end.line - 1, character |-> result.end.offset - 1]]

DefinitionRange(def) ==
    [start |-> [line |-> def.start.line - 1, character |-> def.start.offset - 1],
     end   |-> [line |-> def.end.line - 1, character |-> def.end.offset - 1]]

TextEditRange(tc) ==
    [start |-> [line |-> tc.start.line - 1, character |-> tc.start.offset - 1],
     end   |-> [line |-> tc.end.line - 1, character |-> tc.end.offset - 1]]

ClientRange(feature, range) ==
    CASE feature = "diagnostics" -> DiagnosticRange(range)
      [] feature = "hover"       -> HoverRange(range)
      [] feature = "definition"  -> DefinitionRange(range)
      [] feature = "codeFix"     -> TextEditRange(range)

\* What the client asks about and what the backend reports.
Positions == [line : 0..(MaxLine - 1), character : 0..(MaxOffset - 1)]

BackendRanges ==
    {[start |-> [line |-> l, offset |-> o],
      end   |-> [line   |-> IF fl THEN MaxLine ELSE l,
                 offset |-> IF fo THEN MaxOffset ELSE o]] :
        l \in 1..MaxLine, o \in 1..MaxOffset, fl \in BOOLEAN, fo \in BOOLEAN}

TranslateInit ==
    /\ NoSupervisor
    /\ NoServices
    /\ NoFramer
    /\ NoRouter
    /\ input \in [feature : Features, position : Positions, range : BackendRanges]
    /\ output = [feature |-> "none"]

\* One feature runs: the request goes out in backend coordinates, the range
\* the backend reports comes back in client coordinates.
Translate ==
    /\ output.feature = "none"
    /\ output' =
          [feature |-> input.feature,
           sent    |-> IF input.feature = "codeFix"
                       THEN CodeFixArgs([start |-> input.position,
                                         end   |-> input.position])
                       ELSE ToBackend(input.position),
           range   |-> ClientRange(input.feature, input.range)]
    /\ UNCHANGED <<input, supervisor, framing, routing, services>>

TranslateNext == Translate

TranslateSpec == TranslateInit /\ [][TranslateNext]_vars

\* The location a request sent, read as the backend reports locations.
Sent ==
    IF output.feature = "codeFix"
    THEN [line |-> output.sent.startLine, offset |-> output.sent.startOffset]
    ELSE output.sent

\* ------------------------------------------------------- paths and URIs
MaxPath == 3             \* characters of a path after its leading "/"

\* The characters of a path: a plain one, the dot, characters that are
\* reserved or escaped in a URI, the backslash, and two digits.
PathChars == {"/", "s", ".", "%", "#", "?", " ", "\\", "2", "5"}

HexDigits == {"0", "2", "5", "C"}

Cwd == <<"/", "w">>      \* process.cwd()

Null == <<>>             \* null: a URI or a path is never the empty text

URIError == <<"URIError">>

\* text.split('/')
RECURSIVE Segments(_)
Segments(text) ==
    LET i == IndexOf(text, <<"/">>)
    IN  IF i = -1 THEN <<text>>
        ELSE <<Substring(text, 0, i)>> \o Segments(SubstringFrom(text, i + 1))

\* The segments that path.resolve keeps: "" and "." are dropped, ".." drops
\* the segment before it.
RECURSIVE Kept(_, _)
Kept(segs, stack) ==
    IF segs = <<>> THEN stack
    ELSE LET seg == Head(segs)
         IN  Kept(Tail(segs),
                  IF seg = <<>> \/ seg = <<".">> THEN stack
                  ELSE IF seg = <<".", ".">>
                       THEN (IF stack = <<>> THEN stack
                             ELSE SubSeq(stack, 1, Len(stack) - 1))
                  ELSE Append(stack, seg))

RECURSIVE Join(_)
Join(segs) ==
    IF segs = <<>> THEN <<>> ELSE <<"/">> \o Head(segs) \o Join(Tail(segs))

\* path.resolve(filePath) on POSIX: a relative path is taken from the working
\* directory, the result is absolute and normalised; the backslash is an
\* ordinary character.
Resolve(filePath) ==
    LET abs  == IF filePath # <<>> /\ filePath[1] = "/" THEN filePath
                ELSE Cwd \o <<"/">> \o filePath
        kept == Kept(Segments(abs), <<>>)
    IN  IF kept = <<>> THEN <<"/">> ELSE Join(kept)

\* line 294: absolutePath.replace(/\\/g, '/')
Slashes(text) ==
    [i \in 1..Len(text) |-> IF text[i] = "\\" THEN "/" ELSE text[i]]

\* encodeURI: letters, digits, the dot and the reserved characters (among them
\* "/", "#" and "?") stay; "%", space and backslash are escaped.
RECURSIVE EncodeURI(_)
EncodeURI(text) ==
    IF text = <<>> THEN <<>>
    ELSE (CASE Head(text) = "%"  -> <<"%", "2", "5">>
            [] Head(text) = " "  -> <<"%", "2", "0">>
            [] Head(text) = "\\" -> <<"%", "5", "C">>
            [] OTHER             -> <<Head(text)>>)
         \o EncodeURI(Tail(text))

\* The character an escape stands for.
Unescaped(h, l) ==
    CASE <<h, l>> = <<"2", "5">> -> "%"
      [] <<h, l>> = <<"2", "0">> -> " "
      [] <<h, l>> = <<"5", "C">> -> "\\"
      [] OTHER                   -> "other"

\* decodeURIComponent: every escape is decoded; a "%" that does not start an
\* escape throws.
RECURSIVE DecodeURIComponent(_)
DecodeURIComponent(text) ==
    IF text = <<>> THEN <<>>
    ELSE IF Head(text) # "%"
    THEN LET rest == DecodeURIComponent(Tail(text))
         IN  IF rest = URIError THEN URIError ELSE <<Head(text)>> \o rest
    ELSE IF Len(text) < 3 \/ text[2] \notin HexDigits \/ text[3] \notin HexDigits
    THEN URIError
    ELSE LET rest == DecodeURIComponent(SubSeq(text, 4, Len(text)))
         IN  IF rest = URIError THEN URIError
             ELSE <<Unescaped(text[2], text[3])>> \o rest

\* uri.replace('file://', ''): the first occurrence is removed.
RemoveScheme(uri) ==
    LET i == IndexOf(uri, <<"file://">>)
    IN  IF i = -1 THEN uri
        ELSE Substring(uri, 0, i) \o SubstringFrom(uri, i + 1)

\* lines 285-288
UriToFilePath(uri) == DecodeURIComponent(RemoveScheme(uri))

\* lines 290-295
FilePathToUri(filePath) ==
    IF filePath = <<>> THEN Null
    ELSE <<"file://">> \o EncodeURI(Slashes(Resolve(filePath)))

RECURSIVE Texts(_, _)
Texts(chars, n) ==
    IF n = 0 THEN {<<>>}
    ELSE LET shorter == Texts(chars, n - 1)
         IN  shorter \cup {Append(t, c) : t \in shorter, c \in chars}

AbsolutePaths == {<<"/">> \o t : t \in Texts(PathChars, MaxPath)}

UriInit ==
    /\ NoSupervisor
    /\ NoServices
    /\ NoFramer
    /\ NoRouter
    /\ input \in [feature : {"path"}, path : AbsolutePaths]
    /\ output = [feature |-> "none"]

\* A path goes to the backend's side and comes back.
Convert ==
    /\ output.feature = "none"
    /\ LET uri  == FilePathToUri(input.path)
           back == UriToFilePath(uri)
       IN  output' = [feature |-> "path", uri |-> uri, back |-> back,
                      again |-> FilePathToUri(back)]
    /\ UNCHANGED <<input, supervisor, framing, routing, services>>

UriNext == Convert

UriSpec == UriInit /\ [][UriNext]_vars

\* ------------------------------------------------------ backend events
MaxDiags == 2            \* diagnostic records in one event

Categories == {"error", "warning", "suggestion", "message"}

MapTSServerSeverity_Hint(category) ==
    CASE category = "error"   -> 1
      [] category = "warning" -> 2
      [] OTHER                -> 4

\* lines 241-248
MapTSServerSeverity(category) ==
    CASE category = "error"      -> 1
      [] category = "warning"    -> 2
      [] category = "suggestion" -> 3
      [] OTHER                   -> 4

\* lines 221-239: what handleDiagnosticsEvent emits, in order.
HandleDiagnosticsEvent(event) ==
    LET diagnostics == event.diagnostics
        uri         == FilePathToUri(event.file)
    IN  IF uri # Null
        THEN <<[name |-> "diagnostics", uri |-> uri,
                diagnostics |->
                   [k \in 1..Len(diagnostics) |->
                       [range    |-> DiagnosticRange(diagnostics[k]),
                        severity |-> MapTSServerSeverity(diagnostics[k].category),
                        source   |-> "tsserver",
                        message  |-> diagnostics[k].text]]]>>
        ELSE <<>>

HandleTSServerEvent_Any(event) == HandleDiagnosticsEvent(event)

\* lines 205-218
HandleTSServerEvent(event) ==
    IF event.event \in {"semanticDiag", "syntaxDiag", "suggestionDiag"}
    THEN HandleDiagnosticsEvent(event)
    ELSE <<>>

\* lines 187-204: what handling one decoded backend message emits.
ResponseEmits(response) ==
    IF response.type = "response" THEN <<>>
    ELSE IF response.type = "event" THEN HandleTSServerEvent(response)
    ELSE <<>>

EventNames == {"semanticDiag", "syntaxDiag", "suggestionDiag",
               "projectLoadingFinish", "configFileDiag"}

\* The file of a message body; the empty text when the body names none.
Files == {<<>>, <<"/", "s">>}

DiagRecords ==
    {[category |-> c, text |-> t,
      start |-> [line |-> 5, offset |-> 10], end |-> [line |-> 5, offset |-> 12]] :
        c \in Categories, t \in {"m1", "m2"}}

RECURSIVE SeqsUpTo(_, _)
SeqsUpTo(S, n) ==
    IF n = 0 THEN {<<>>}
    ELSE LET shorter == SeqsUpTo(S, n - 1)
         IN  shorter \cup {Append(q, x) : q \in shorter, x \in S}

BackendMessages ==
    [type : {"response", "event"}, event : EventNames, file : Files,
     diagnostics : SeqsUpTo(DiagRecords, MaxDiags)]

EventInit ==
    /\ NoSupervisor
    /\ NoServices
    /\ NoFramer
    /\ NoRouter
    /\ input \in [feature : {"message"}, message : BackendMessages]
    /\ output = [feature |-> "none"]

\* One decoded backend message is handled.
Receive ==
    /\ output.feature = "none"
    /\ output' = [feature |-> "message", emitted |-> ResponseEmits(input.message)]
    /\ UNCHANGED <<input, supervisor, framing, routing, services>>

EventNext == Receive

EventSpec == EventInit /\ [][EventNext]_vars

\* ---------------------------------------------------------- completions
MaxEntries == 2          \* entries of one completion result

\* lines 469-486: the object literal LSPCompletionItemKind
LSPCompletionItemKind ==
    [k \in {"primitive_type", "keyword", "var", "local_var", "property", "let",
            "const", "function", "method", "class", "interface", "enum",
            "module", "alias", "script", "type_parameter"} |->
        CASE k \in {"primitive_type", "keyword"} -> 14
          [] k \in {"var", "local_var", "let"}    -> 6
          [] k = "property"       -> 10
          [] k = "const"          -> 21
          [] k = "function"       -> 3
          [] k = "method"         -> 2
          [] k = "class"          -> 7
          [] k = "interface"      -> 8
          [] k = "enum"           -> 13
          [] k = "module"         -> 9
          [] k = "alias"          -> 18
          [] k = "script"         -> 17
          [] k = "type_parameter" -> 25]

\* The properties every object literal inherits from Object.prototype; the
\* value of each is a function.
ObjectPrototype == {"constructor", "toString", "valueOf", "hasOwnProperty"}

\* A JavaScript value by its typeof; value is the number when it is one.
Number(n) == [typeof |-> "number", value |-> n]

Function == [typeof |-> "function", value |-> 0]

\* line 487: LSPCompletionItemKind[tsKind] || 1.  The lookup finds own and
\* inherited properties; every value it can find is truthy.
MapCompletionItemKind(tsKind) ==
    IF tsKind \in DOMAIN LSPCompletionItemKind
    THEN Number(LSPCompletionItemKind[tsKind])
    ELSE IF tsKind \in ObjectPrototype THEN Function
    ELSE Number(1)

\* The kinds the backend reports: the keys of the table and kinds it lacks
\* ("constructor" is the backend's kind of a constructor).
TSKinds == DOMAIN LSPCompletionItemKind \cup {"getter", "constructor", "toString"}

\* lines 352-358: the items of getCompletions, one per entry, in order.
CompletionKinds(entries) ==
    [k \in 1..Len(entries) |-> MapCompletionItemKind(entries[k])]

CompletionInit ==
    /\ NoSupervisor
    /\ NoServices
    /\ NoFramer
    /\ NoRouter
    /\ input \in [feature : {"completion"}, entries : SeqsUpTo(TSKinds, MaxEntries)]
    /\ output = [feature |-> "none"]

\* The completionInfo request of getCompletions resolves.
GetCompletions ==
    /\ output.feature = "none"
    /\ output' = [feature |-> "completion", kinds |-> CompletionKinds(input.entries)]
    /\ UNCHANGED <<input, supervisor, framing, routing, services>>

CompletionNext == GetCompletions

CompletionSpec == CompletionInit /\ [][CompletionNext]_vars

\* ------------------------------------------------------ open documents
DocUris == {"A", "B"}    \* documents the client names in a document run

DocContents == {"t1", "t2"}

\* Map.prototype.delete on the openFiles map.
MapDelete(files, uri) ==
    LET keep == {i \in 1..Len(files) : files[i].uri # uri}
    IN  [n \in 1..Cardinality(keep) |->
            files[CHOOSE i \in keep : Cardinality({j \in keep : j < i}) = n - 1]]

\* lines 313-328, up to the first await.
UpdateFile(uri, content) ==
    /\ openFiles' = MapSet(openFiles, uri, content)
    /\ Store(SendTSServerRequest(Corr, tsserver, isRestarting, "reload", uri,
                                 "client", "geterr"))
    /\ emitted' = <<>>
    /\ opened' = IF uri \in DOMAIN opened THEN Put(opened, uri, content)
                 ELSE opened
    /\ UNCHANGED <<tsserver, isRestarting, restartTimers, procs, inert, owed,
                   spawnFailed>>
    /\ Budget'
    /\ UNCHANGED aux

\* lines 330-337, up to the await.
CloseFile(uri) ==
    /\ openFiles' = MapDelete(openFiles, uri)
    /\ Store(SendTSServerRequest(Corr, tsserver, isRestarting, "close", uri,
                                 "client", "none"))
    /\ emitted' = <<>>
    /\ opened' = Remove(opened, uri)
    /\ UNCHANGED <<tsserver, isRestarting, restartTimers, procs, inert, owed,
                   spawnFailed>>
    /\ Budget'
    /\ UNCHANGED aux

\* A session in which the client opens, changes and closes documents while
\* the backend starts, answers, exits and is shut down.
DocNext ==
    \/ Start
    \/ RestartTimerFire
    \/ \E p \in 1..MaxProcs : Exit(p)
    \/ Shutdown
    \/ \E u \in DocUris, t \in DocContents : OpenFile(u, t)
    \/ \E u \in DocUris, t \in DocContents : UpdateFile(u, t)
    \/ \E u \in DocUris : CloseFile(u)
    \/ \E p \in 1..MaxProcs, r \in Responses : HandleTSServerResponse(p, r)

DocSpec == Init /\ [][DocNext]_vars

\* The openFiles map as a function from URI to text.
OpenFilesMap ==
    [u \in {openFiles[i].uri : i \in 1..Len(openFiles)} |->
        (CHOOSE f \in Range(openFiles) : f.uri = u).content]

\* ------------------------------------------------------ dependency info
MaxClock == 3            \* the clock runs from 0 to MaxClock
MaxCalls == 3            \* service calls in one behaviour

Day == 2                 \* 24 * 60 * 60 * 1000 ms, in ticks of twelve hours

Providers == {"part_005", "part_006"}

Packages == {"p", "q"}

\* What node_modules holds for a package ("" when it has no copy) and what
\* the registry answers ("" when it has no such package).
LocalCopies == {"", "local"}

RegistryAnswers == {"", "registry", "unreachable"}

\* lines 166-172: a cached entry less than a day old
CacheHit(c, packageName, t) ==
    /\ packageName \in DOMAIN c
    /\ t - c[packageName].timestamp < Day

\* lines 248-251: this.cache.set(packageName, { timestamp, data })
CachePackageInfo(c, packageName, info, t) ==
    Put(c, packageName, [timestamp |-> t, data |-> info])

\* getPackageInfo (part_005 lines 165-187, part_006 lines 170-196) for one
\* state of node_modules and of the registry: what it returns (the info, ""
\* for null, "rejected" when the promise rejects), the cache it leaves and
\* whether it went to the network.
GetPackageInfo(version, c, packageName, local, registry, t) ==
    IF CacheHit(c, packageName, t)
    THEN [info |-> c[packageName].data, cache |-> c, network |-> FALSE]
    ELSE IF local # ""
    THEN [info |-> local, cache |-> CachePackageInfo(c, packageName, local, t),
          network |-> FALSE]
    ELSE IF registry = "unreachable"
    THEN [info |-> IF version = "part_006" THEN "rejected" ELSE "",
          cache |-> c, network |-> TRUE]
    ELSE IF registry # ""
    THEN [info |-> registry,
          cache |-> CachePackageInfo(c, packageName, registry, t),
          network |-> TRUE]
    ELSE [info |-> "", cache |-> c, network |-> TRUE]

DependencyInit ==
    /\ NoSupervisor
    /\ NoFramer
    /\ NoRouter
    /\ NoTranslation
    /\ now = 0
    /\ returned = [n |-> 0]
    /\ provider \in Providers
    /\ cache = <<>>
    /\ profilers = <<>>
    /\ logged = <<>>
    /\ listeners = {}

\* A hover over a dependency asks for the info of a package.
PackageInfoCall(packageName, local, registry) ==
    /\ returned.n < MaxCalls
    /\ LET r == GetPackageInfo(provider, cache, packageName, local, registry, now)
       IN  /\ cache' = r.cache
           /\ returned' = [n |-> returned.n + 1, packageName |-> packageName,
                           local |-> local, registry |-> registry,
                           info |-> r.info, network |-> r.network]
    /\ UNCHANGED <<now, provider, profilers, logged, listeners, supervisor, framing,
                   routing, translating>>

\* clearCache
ClearCache ==
    /\ cache # <<>>
    /\ cache' = <<>>
    /\ UNCHANGED <<now, returned, provider, profilers, logged, listeners, supervisor,
                   framing, routing, translating>>

\* Twelve hours pass.
HalfDayPasses ==
    /\ now < MaxClock
    /\ now' = now + 1
    /\ UNCHANGED <<returned, provider, cache, profilers, logged, listeners, supervisor,
                   framing, routing, translating>>

DependencyNext ==
    \/ \E pn \in Packages, l \in LocalCopies, g \in RegistryAnswers :
          PackageInfoCall(pn, l, g)
    \/ ClearCache
    \/ HalfDayPasses

DependencySpec == DependencyInit /\ [][DependencyNext]_vars

\* ------------------------------------------------------- Logger.profile
Names == {"test", "x"}

LoggerInit ==
    /\ NoSupervisor
    /\ NoFramer
    /\ NoRouter
    /\ NoTranslation
    /\ now \in 0..MaxClock
    /\ returned = [n |-> 0]
    /\ provider = "none"
    /\ cache = <<>>
    /\ profilers = <<>>
    /\ logged = <<>>
    /\ listeners = {}

\* lines 276-279: profile(name) reads the clock and returns an object.
Profile(name) ==
    /\ Len(profilers) < MaxCalls
    /\ profilers' = Append(profilers, [name |-> name, start |-> now])
    /\ UNCHANGED <<now, returned, provider, cache, logged, listeners, supervisor, framing,
                   routing, translating>>

\* lines 280-284: end() of the k-th object reads the clock again, calls
\* this.debug and returns the difference.
End(k) ==
    /\ k \in 1..Len(profilers)
    /\ returned.n < MaxCalls
    /\ LET duration == now - profilers[k].start
       IN  /\ logged' = Append(logged,
                               [message |-> <<"Profile: ", profilers[k].name>>,
                                data |-> [duration |-> <<duration, "ms">>]])
           /\ returned' = [n |-> returned.n + 1, profiler |-> k,
                           value |-> duration]
    /\ UNCHANGED <<now, provider, cache, profilers, listeners, supervisor, framing,
                   routing, translating>>

\* A millisecond passes.
MillisecondPasses ==
    /\ now < MaxClock
    /\ now' = now + 1
    /\ UNCHANGED <<returned, provider, cache, profilers, logged, listeners, supervisor,
                   framing, routing, translating>>

\* Date.now() is the system's wall clock: the system sets it back (a time
\* synchronisation, a change made by hand).
ClockSetBack ==
    /\ \E t \in 0..MaxClock : t < now /\ now' = t
    /\ UNCHANGED <<returned, provider, cache, profilers, logged, listeners, supervisor,
                   framing, routing, translating>>

LoggerNext ==
    \/ \E name \in Names : Profile(name)
    \/ \E k \in 1..MaxCalls : End(k)
    \/ MillisecondPasses
    \/ ClockSetBack

LoggerSpec == LoggerInit /\ [][LoggerNext]_vars

\* ------------------------------------------- the receive buffer on respawn
\* The proxy's receive buffer is assigned in the constructor (line 15) and in
\* handleTSServerOutput; the exit handler (lines 54-61), _handleUnexpectedExit
\* (lines 90-105) and _spawnTSServer (lines 25-88) leave it as it is.
BufferOnRespawn(buf) == buf

\* The first backend process is running; items[1] is what it writes, items[2]
\* what its successor writes.
RespawnInit ==
    /\ tsserver = 1
    /\ procs = <<[status |-> "alive", restart |-> FALSE, lost |-> 0]>>
    /\ requestId = 0
    /\ pendingRequests = EmptyMap
    /\ openFiles = <<>>
    /\ isRestarting = FALSE
    /\ restartTimers = 0
    /\ promises = EmptyMap
    /\ assigned = <<>>
    /\ settled = {}
    /\ inert = FALSE
    /\ owed = FALSE
    /\ spawnFailed = FALSE
    /\ emitted = <<>>
    /\ opened = EmptyMap
    /\ NoServices
    /\ NoRouter
    /\ NoTranslation
    /\ framer = "backend"
    /\ items \in [1..2 -> ItemsOf("backend")]
    /\ wire = OnWire("backend", items[1])
    /\ buffer = <<>>
    /\ dispatched = <<>>

\* The first process exits with whatever it has written so far delivered; what
\* it had not written is never written.  The restart timer fires and start()
\* spawns the second process, whose stdout gets the same 'data' handler
\* (lines 46-48).
Respawn ==
    /\ tsserver = 1
    /\ procs' = <<[procs[1] EXCEPT !.status = "exited"],
                  [status |-> "alive", restart |-> TRUE, lost |-> 0]>>
    /\ tsserver' = 2
    /\ emitted' = <<"restarted">>
    /\ buffer' = BufferOnRespawn(buffer)
    /\ wire' = OnWire("backend", items[2])
    /\ dispatched' = <<>>
    /\ UNCHANGED <<requestId, pendingRequests, openFiles, isRestarting,
                   restartTimers, promises, assigned, settled, inert, owed,
                   spawnFailed, opened, framer, items, routing, translating,
                   services>>

RespawnNext ==
    \/ Feed
    \/ Respawn

RespawnSpec == RespawnInit /\ [][RespawnNext]_vars



\* ------------------------------------------------- outages and restarts
MaxOutageProcs == 4      \* backend processes in a behaviour of exits and starts

\* Exit events, explicit start() calls, timer firings and shutdown() calls;
\* the client sends nothing.
RestartNext ==
    \/ StartWithin(MaxOutageProcs)
    \/ RestartTimerFireWithin(MaxOutageProcs)
    \/ \E p \in 1..MaxOutageProcs : ExitWithin(p, MaxOutageProcs)
    \/ Shutdown

RestartSpec == Init /\ [][RestartNext]_vars

\* ------------------------------------------------------- arrival order
\* The envelopes carried by the first k items, in the order of the items: a
\* frame and, from the backend, a line carry one each.
RECURSIVE Carried(_, _)
Carried(its, k) ==
    IF k = 0 THEN <<>>
    ELSE Carried(its, k - 1)
           \o (IF its[k].kind \in {"frame", "line"} THEN <<its[k].env>> ELSE <<>>)

\* d can be had from s by leaving elements out.
RECURSIVE IsSubsequence(_, _)
IsSubsequence(d, s) ==
    IF d = <<>> THEN TRUE
    ELSE IF s = <<>> THEN FALSE
    ELSE IF d[1] = s[1] THEN IsSubsequence(Tail(d), Tail(s))
    ELSE IsSubsequence(d, Tail(s))

\* ------------------------------------------- requests written to the backend
Proxies == {"tsserver-proxy.js", "part_007"}

\* tsserver-proxy.js lines 256-264: JSON.stringify(request) + '\n'
RequestStr(env) == JSONStringify(env) \o <<"\n">>

\* part_007 line 94: the header carries JSON.stringify(request).length, the
\* number of UTF-16 code units.
SendRequestText(env) ==
    <<"Content-Length", ": ">> \o ToDigits(Len(JSONStringify(env)))
        \o Separator \o JSONStringify(env)

\* stdin.write(string) writes the string's UTF-8 bytes.
Written(proxy, env) ==
    Bytes(IF proxy = "tsserver-proxy.js" THEN RequestStr(env)
          ELSE SendRequestText(env))

SerializeInit ==
    /\ NoSupervisor
    /\ NoServices
    /\ NoRouter
    /\ NoTranslation
    /\ framer \in Proxies
    /\ items = <<>>
    /\ wire = <<>>
    /\ buffer = <<>>
    /\ dispatched = <<>>

\* One accepted request: items records its payload, wire the backend's stdin.
WriteRequest(env) ==
    /\ Len(items) < MaxMsgs
    /\ items' = Append(items, [kind |-> "request", env |-> env])
    /\ wire' = wire \o Written(framer, env)
    /\ UNCHANGED <<framer, buffer, dispatched, supervisor, routing,
                   translating, services>>

SerializeNext == \E env \in Envs : WriteRequest(env)

SerializeSpec == SerializeInit /\ [][SerializeNext]_vars

\* The bytes of Content-Length frames for the payloads of its.
RECURSIVE Framed(_)
Framed(its) ==
    IF its = <<>> THEN <<>>
    ELSE Bytes(SendMessage(JSONStringify(its[1].env))) \o Framed(Tail(its))

\* --------------------------------------------------- outbound envelopes
\* What a handler hands to the connection: a value, null, or undefined.
HandlerResults == {"value", "null", "undefined"}

\* The error argument of the original sendResponse: null by default.
ErrorArgs == {"null", "error"}

\* JSON.stringify of an object: a member whose value is undefined is left out.
StringifyObject(obj) ==
    [k \in {m \in DOMAIN obj : obj[m] # "undefined"} |-> obj[k]]

\* part_002 lines 91-96: { jsonrpc, id, result: error ? undefined : result,
\* error }.
OriginalResponse(id, result, error) ==
    StringifyObject([jsonrpc |-> "2.0", id |-> Digits[id + 1],
                     result |-> IF error # "null" THEN "undefined" ELSE result,
                     error |-> error])

\* part_003 line 57: { jsonrpc, id, result }.
FinalResponse(id, result) ==
    StringifyObject([jsonrpc |-> "2.0", id |-> Digits[id + 1], result |-> result])

\* part_003 line 62: { jsonrpc, id, error: { code, message } }.
FinalError(id) ==
    StringifyObject([jsonrpc |-> "2.0", id |-> Digits[id + 1], error |-> "error"])

\* part_002 lines 129-136, part_003 line 66: { jsonrpc, method, params }.
NotificationEnvelope ==
    StringifyObject([jsonrpc |-> "2.0", method |-> "method", params |-> "value"])

EnvelopeInit ==
    /\ NoSupervisor
    /\ NoServices
    /\ NoFramer
    /\ NoTranslation
    /\ router \in Routers
    /\ currentRequestId = Undefined
    /\ handlers = {}
    /\ outbox = <<>>
    /\ received = 0
    /\ completed = {}

\* A request arrives and its handler answers with sendResponse.
Respond(result, error) ==
    /\ received < MaxMsgs
    /\ LET id == received + 1
       IN  /\ received' = id
           /\ completed' = completed \cup {id}
           /\ outbox' = Append(outbox,
                               IF router = "original"
                               THEN OriginalResponse(id, result, error)
                               ELSE FinalResponse(id, result))
    /\ UNCHANGED <<router, currentRequestId, handlers, supervisor, framing,
                   translating, services>>

\* A request arrives and its handler fails: the original host passes the error
\* to sendResponse, the final host calls sendError.
RespondError ==
    /\ received < MaxMsgs
    /\ LET id == received + 1
       IN  /\ received' = id
           /\ completed' = completed \cup {id}
           /\ outbox' = Append(outbox,
                               IF router = "original"
                               THEN OriginalResponse(id, "undefined", "error")
                               ELSE FinalError(id))
    /\ UNCHANGED <<router, currentRequestId, handlers, supervisor, framing,
                   translating, services>>

\* The server sends a notification (sendDiagnostics).
SendNotification ==
    /\ Len(outbox) < MaxMsgs
    /\ outbox' = Append(outbox, NotificationEnvelope)
    /\ UNCHANGED <<router, currentRequestId, handlers, received, completed,
                   supervisor, framing, translating, services>>

EnvelopeNext ==
    \/ \E result \in HandlerResults, error \in ErrorArgs : Respond(result, error)
    \/ RespondError
    \/ SendNotification

EnvelopeSpec == EnvelopeInit /\ [][EnvelopeNext]_vars

\* The envelope has a member of that name; for error, one that is not null.
Has(envelope, member) ==
    /\ member \in DOMAIN envelope
    /\ member = "error" => envelope[member] # "null"

\* ------------------------------------------- coordinates out of range
\* Diagnostic records whose start is in range (line 1, offset 1 and up) or has
\* a line or an offset of 0.
CoordinateRecords ==
    {[category |-> "error", text |-> t,
      start |-> [line |-> l, offset |-> o],
      end   |-> [line |-> l, offset |-> o + 1]] :
        t \in {"m1", "m2"}, l \in {0, 1}, o \in {0, 1}}

DefensiveInit ==
    /\ NoSupervisor
    /\ NoServices
    /\ NoFramer
    /\ NoRouter
    /\ input \in [feature : {"message"},
                  message : [type : {"event"},
                             event : {"semanticDiag", "syntaxDiag", "suggestionDiag"},
                             file : {<<"/", "s">>},
                             diagnostics : SeqsUpTo(CoordinateRecords, MaxDiags)]]
    /\ output = [feature |-> "none"]

DefensiveNext == Receive

DefensiveSpec == DefensiveInit /\ [][DefensiveNext]_vars

\* ------------------------------------- the backend framer of part_007
\* String.prototype.split(separator)
RECURSIVE SplitOn(_, _)
SplitOn(text, separator) ==
    LET i == IndexOf(text, separator)
    IN  IF i = -1 THEN <<text>>
        ELSE <<Substring(text, 0, i)>>
                 \o SplitOn(SubstringFrom(text, i + Len(separator)), separator)

\* part_007 lines 49-61: the loop over the pieces before the last one.
RECURSIVE VariantPieces(_, _)
VariantPieces(responses, out) ==
    IF responses = <<>> THEN out
    ELSE
    LET responseStr == responses[1]
        headerMatch == ContentLengthMatch(responseStr)
        brace       == IndexOf(responseStr, <<"{">>)
        jsonStr     == SubstringFrom(responseStr, IF brace = -1 THEN 0 ELSE brace)
        message     == JSONParse(jsonStr)
    IN  VariantPieces(Tail(responses),
                      IF /\ Trim(responseStr) # <<>>
                         /\ headerMatch # <<>>
                         /\ Len(jsonStr) >= ParseInt(headerMatch)
                         /\ message.ok
                      THEN Append(out, message.value) ELSE out)

\* part_007 lines 45-63: handleTSServerOutput
VariantHandleTSServerOutput(buf, data) ==
    LET responses == SplitOn(buf \o BufferToString(data), Separator)
    IN  [buffer |-> responses[Len(responses)],
         out    |-> VariantPieces(SubSeq(responses, 1, Len(responses) - 1), <<>>)]

\* The backend writes one or more consecutive Content-Length frames.
VariantInit ==
    /\ NoSupervisor
    /\ NoServices
    /\ NoRouter
    /\ NoTranslation
    /\ framer = "part_007"
    /\ \E n \in 1..MaxItems :
          items \in [1..n -> {[kind |-> "frame", env |-> e] : e \in Envs}]
    /\ wire = WireOf("backend", items)
    /\ buffer = <<>>
    /\ dispatched = <<>>

\* One 'data' event of the backend's stdout.
VariantFeed ==
    \E n \in 1..Len(wire) :
        LET r == VariantHandleTSServerOutput(buffer, SubSeq(wire, 1, n))
        IN  /\ wire' = SubSeq(wire, n + 1, Len(wire))
            /\ buffer' = r.buffer
            /\ dispatched' = dispatched \o r.out
            /\ UNCHANGED <<framer, items, supervisor, routing, translating,
                           services>>

VariantNext == VariantFeed

VariantSpec == VariantInit /\ [][VariantNext]_vars







\* ------------------------------------------------ a 'restarted' listener
\* A host whose 'restarted' listener sends a request to the backend.
ListenerInit ==
    /\ NoSupervisor
    /\ NoFramer
    /\ NoRouter
    /\ NoTranslation
    /\ now = 0
    /\ returned = [n |-> 0]
    /\ provider = "none"
    /\ cache = <<>>
    /\ profilers = <<>>
    /\ logged = <<>>
    /\ listeners = {"restarted"}

ListenerSpec == ListenerInit /\ [][Next]_vars



\* ------------------------------------------------------------- the claims
\* The 'exit' event of process p is delivered in this step.
ExitStep(p) ==
    /\ p \in 1..Len(procs)
    /\ procs[p].status # "exited"
    /\ procs'[p].status = "exited"

\* C1  Crash cancellation.  In the step that delivers the exit of a backend
\* process while requests are pending, the session was not restarting and is
\* now, every pending promise is rejected with the same error and the table is
\* empty; and whenever a restart is in progress the table is empty.
C1_CrashCancellation ==
    [][/\ isRestarting' => pendingRequests' = EmptyMap
       /\ \A p \in 1..MaxProcs :
            (ExitStep(p) /\ pendingRequests # EmptyMap) =>
               /\ ~isRestarting /\ isRestarting'
               /\ pendingRequests' = EmptyMap
               /\ \A k \in DOMAIN pendingRequests :
                     /\ pendingRequests[k] \notin DOMAIN promises'
                     /\ \E o \in settled' :
                           o.id = pendingRequests[k] /\ o.kind = "exited"
               /\ \A o1, o2 \in settled' :
                     o1.kind = o2.kind /\ o1.val = o2.val]_vars

\* A crash has just rejected two pending requests at once.
C1_Witness ==
    /\ isRestarting
    /\ pendingRequests = EmptyMap
    /\ Cardinality(settled) >= 2
    /\ \A o \in settled : o.kind = "exited"

\* The `open` requests that the step wrote to process p, in write order.
OpensWrittenTo(p) ==
    LET ids == {i \in (DOMAIN promises') \ (DOMAIN promises) :
                   promises'[i].proc = p /\ promises'[i].command = "open"}
    IN  [n \in 1..Cardinality(ids) |->
            LET i == CHOOSE j \in ids : Cardinality({x \in ids : x < j}) = n - 1
            IN  promises'[i].uri]

\* C2  Restart replay.  The step that spawns a backend on the restart path
\* writes to the new process one `open` request per open document, in the
\* order in which the documents were opened.
C2_RestartReplay ==
    [][(isRestarting /\ Len(procs') = Len(procs) + 1) =>
          OpensWrittenTo(Len(procs'))
             = [n \in 1..Len(openFiles) |-> openFiles[n].uri]]_vars

\* C3  Shutdown makes the session inert.  While shutdown() has been called and
\* start() has not, no step spawns a process and no step schedules a restart.
C3_ShutdownInert ==
    [][(inert /\ inert') =>
          (Len(procs') = Len(procs) /\ restartTimers' <= restartTimers)]_vars

\* C4  No stale delivery across generations.  No promise is settled by the
\* output of a process that was killed or has exited and was spawned before
\* the process the request was written to.
C4_NoStaleDelivery ==
    \A o \in settled :
        ~o.stale

\* C5  Sequence uniqueness.  Every seq a step assigns is greater than every
\* seq assigned before it, in call order, and is not a key of the pending
\* table the step started from.
C5_SequenceUniqueness ==
    [][\A i \in 1..Len(assigned') :
          i > Len(assigned) =>
             /\ assigned'[i] \notin DOMAIN pendingRequests
             /\ \A j \in 1..(i - 1) : assigned'[j] < assigned'[i]]_vars

\* Requests were accepted before a restart and after it.
C5_Witness ==
    /\ Len(assigned) >= 3
    /\ \E i \in DOMAIN promises :
          procs[promises[i].proc].restart /\ promises[i].origin = "client"

\* C6  Correlation by id only.  A response whose request_seq is a key of the
\* pending table settles the promise of exactly that entry (resolved with the
\* body, or rejected with the message) and removes only that entry; any other
\* backend message changes neither the table nor any promise.
C6_CorrelationById ==
    [][/\ \A o \in settled' :
             o.by.type = "response" =>
                LET r == o.by
                IN  /\ settled' = {o}
                    /\ r.request_seq \in DOMAIN pendingRequests
                    /\ o.id = pendingRequests[r.request_seq]
                    /\ o.id \in DOMAIN promises
                    /\ promises[o.id].seq = r.request_seq
                    /\ o.kind = IF r.success THEN "resolved" ELSE "rejected"
                    /\ o.val = IF r.success THEN r.body
                               ELSE IF r.message # "" THEN r.message
                               ELSE "TSServer request failed"
                    /\ o.id \notin DOMAIN promises'
                    /\ r.request_seq \notin DOMAIN pendingRequests'
                    /\ \A k \in (DOMAIN pendingRequests) \ {r.request_seq} :
                          /\ k \in DOMAIN pendingRequests'
                          /\ pendingRequests'[k] = pendingRequests[k]
                          /\ pendingRequests[k] \in DOMAIN promises'
                          /\ promises'[pendingRequests[k]]
                                = promises[pendingRequests[k]]
       /\ \A r \in Responses :
             (r.type # "response" \/ r.request_seq \notin DOMAIN pendingRequests)
             => \A p \in 1..MaxProcs :
                   HandleTSServerResponse(p, r) =>
                      /\ settled' = {}
                      /\ UNCHANGED <<pendingRequests, promises, requestId,
                                     assigned>>]_vars

\* A response has settled a later request while an earlier one is still pending.
C6_Witness ==
    \E o \in settled :
        /\ o.by.type = "response"
        /\ \E k \in DOMAIN pendingRequests : k < o.seq

\* C7  Timeout isolation.  The step in which a request's deadline fires
\* rejects that promise alone with a timeout error and removes its entry
\* alone; the other entries and promises, the process handle, the restarting
\* flag, the restart timers and the open-document map are unchanged.
C7_TimeoutIsolation ==
    [][\A o \in settled' :
          o.kind = "timeout" =>
             /\ settled' = {o}
             /\ o.id \in DOMAIN promises
             /\ promises' = Remove(promises, o.id)
             /\ pendingRequests' = Remove(pendingRequests, o.seq)
             /\ UNCHANGED <<tsserver, isRestarting, openFiles, restartTimers,
                            procs, requestId>>]_vars

\* A request has timed out while another is pending on a running backend.
C7_Witness ==
    /\ \E o \in settled : o.kind = "timeout"
    /\ pendingRequests # EmptyMap
    /\ tsserver # NoProc
    /\ ~isRestarting

\* C8  Crashes always lead to a restart attempt.  After an exit the supervisor
\* did not request, a spawn attempt eventually follows, unless the last spawn
\* attempt failed to find the executable.
C8_CrashLeadsToRestart == owed ~> (~owed \/ spawnFailed)

\* A crash is waiting for its restart timer.
C8_Witness == owed /\ restartTimers > 0 /\ ~spawnFailed

\* C9  Requests fail individually while the backend is unavailable.  A client
\* request made while there is no process or a restart is in progress assigns
\* no seq, writes and registers nothing and changes no session state; a client
\* request made otherwise is accepted and written to the current process; and
\* a spawn on the restart path leaves the session accepting requests.
C9_FailWhileUnavailable ==
    [][/\ (ClientRequest \/ \E u \in Uris, t \in Contents : OpenFile(u, t)) =>
             IF tsserver = NoProc \/ isRestarting
             THEN UNCHANGED <<requestId, assigned, pendingRequests, promises,
                              tsserver, isRestarting, restartTimers, procs>>
             ELSE /\ Len(assigned') = Len(assigned) + 1
                  /\ requestId' \in DOMAIN pendingRequests'
                  /\ promises'[pendingRequests'[requestId']].proc = tsserver
       /\ (isRestarting /\ Len(procs') = Len(procs) + 1) =>
             (tsserver' = Len(procs') /\ ~isRestarting')]_vars

\* A document was opened while a restart is in progress and its `open` request
\* was refused: the only seq ever assigned is that of the first `configure`.
C9_Witness ==
    /\ isRestarting
    /\ Len(openFiles) = 1
    /\ Len(assigned) = 1

\* C10 Backend unavailability is never a hard failure.  No request issued by
\* the supervisor itself is rejected by a crash, and none is refused by the
\* guard of sendTSServerRequest during a spawn: its promise has no handler.
C10_NoUnhandledRejection ==
    /\ \A o \in settled : ~(o.origin = "supervisor" /\ o.kind = "exited")
    /\ \A p \in 1..Len(procs) : procs[p].lost = 0

\* C11 Spawn failure is not retried.  Once a start attempt has not
\* found the executable, no process is spawned and no restart timer is
\* scheduled until an attempt finds it; the failing attempt itself emits
\* 'error' and leaves the handle and the restarting flag as they were.
C11_NotRetried ==
    [][spawnFailed' =>
          /\ Len(procs') = Len(procs)
          /\ restartTimers' <= restartTimers
          /\ (Start \/ RestartTimerFire) =>
                /\ emitted' = <<"error">>
                /\ UNCHANGED <<tsserver, isRestarting>>]_vars

\* C12 Shutdown emits no recovery events.  shutdown() empties the pending table
\* and emits nothing; and while the session is shut down, a step in which no
\* running process crashes (the exit of a killed process, a timer) emits
\* neither 'restarting' nor 'restarted'.
C12_ShutdownQuiet ==
    [][/\ Shutdown => (pendingRequests' = EmptyMap /\ emitted' = <<>>)
       /\ (/\ inert /\ inert'
           /\ \A p \in 1..Len(procs) :
                 procs[p].status = "alive" => procs'[p].status = "alive")
          => Range(emitted') \cap {"restarting", "restarted"} = {}]_vars

\* C13 Recovery is announced only after replay.  In the step that emits
\* 'restarted', an `open` request has been written to the new process for
\* every open document, in order, and none of them is still awaiting its
\* response.
C13_RestartedAfterReplay ==
    [][("restarted" \in Range(emitted')) =>
          LET p == Len(procs')
          IN  /\ OpensWrittenTo(p)
                    = [n \in 1..Len(openFiles) |-> openFiles[n].uri]
              /\ \A i \in DOMAIN promises' :
                    ~(promises'[i].proc = p /\ promises'[i].command = "open")]_vars


\* What the framer holds back, as it stood on the wire.
Held == IF framer = "backend" THEN Bytes(buffer) ELSE buffer

\* C14: when a peer's first item is a valid Content-Length frame, however the
\* stream is cut into chunks, no envelope is dispatched before the whole frame
\* has arrived, once it has arrived the frame's envelope is the first one
\* dispatched, and while a following frame is still incomplete exactly that one
\* envelope has been dispatched and the framer holds exactly what has arrived
\* of the following frame.
C14_PartialFrame ==
    (items # <<>> /\ items[1].kind = "frame") =>
        /\ Delivered < UpTo(1) => dispatched = <<>>
        /\ Delivered >= UpTo(1) =>
              /\ Len(dispatched) >= 1
              /\ dispatched[1] = items[1].env
        /\ ( /\ Len(items) >= 2
             /\ items[2].kind \in {"frame", "garbled"}
             /\ Delivered >= UpTo(1)
             /\ Delivered < UpTo(2) ) =>
              /\ dispatched = <<items[1].env>>
              /\ Held = SubSeq(OnWire(framer, items[2]), 1, Delivered - UpTo(1))


\* C15: on the client-facing side, for a stream made of the outputs of
\* sendMessage for one or two envelopes whose payloads hold single-byte or
\* multi-byte characters, once the stream has arrived the framer has dispatched
\* exactly those envelopes, in order, and its buffer is empty.
C15_RoundTrip ==
    ( /\ framer \in {"original", "final"}
      /\ items # <<>>
      /\ \A k \in 1..Len(items) : items[k].kind = "frame"
      /\ wire = <<>> ) =>
        /\ dispatched = EnvsOf(items, Len(items), "frame")
        /\ buffer = <<>>

\* C16: on every framer, in a stream of complete frames of which the first has
\* a payload that is not JSON, at every moment the envelopes dispatched are
\* exactly those of the well-formed frames that have arrived whole, in order
\* (nothing is dispatched for the frame that is not JSON), and the framer holds
\* exactly what has arrived of the next frame.
C16_DecodeErrorsLocal ==
    ( /\ items # <<>>
      /\ items[1].kind = "garbled"
      /\ \A k \in 1..Len(items) : items[k].kind \in {"frame", "garbled"} ) =>
        /\ dispatched = EnvsOf(items, Whole, "frame")
        /\ Held = Partial

\* C17: in each version of the client-facing framer, for a stream that starts
\* with a header block without Content-Length and goes on with well-formed
\* frames (already for frames with single-byte payloads), once the stream has
\* arrived every one of these frames has been dispatched, in order.
C17_FramingErrorsNotFatal ==
    ( /\ framer \in {"original", "final"}
      /\ Len(items) >= 2
      /\ items[1].kind = "headerless"
      /\ \A k \in 2..Len(items) : items[k].kind = "frame" /\ items[k].env = "a"
      /\ wire = <<>> ) =>
        dispatched = EnvsOf(items, Len(items), "frame")

\* C18: on the backend-facing framer, for a stream made only of
\* newline-terminated lines, at every moment the envelopes dispatched are
\* exactly those of the complete lines that parse as JSON, in order, and the
\* framer holds exactly what has arrived of the incomplete last line.
C18_NewlineDelimited ==
    ( /\ framer = "backend"
      /\ items # <<>>
      /\ \A k \in 1..Len(items) : items[k].kind \in {"line", "noise"} ) =>
        /\ dispatched = EnvsOf(items, Whole, "line")
        /\ Held = Partial


\* C19: in each version of the connection, under every interleaving of
\* requests, notifications and handler completions, every response written
\* carries the id of the request its handler was serving, and every request
\* whose handler has run to its end has exactly one response with its id.
C19_ReplyAddressing ==
    /\ \A k \in DOMAIN outbox : outbox[k].id = outbox[k].for
    /\ \A i \in completed :
          Cardinality({k \in DOMAIN outbox : outbox[k].id = i}) = 1


\* C20: for every feature, a client position converted to backend coordinates
\* and back with the feature's conversion is the same position, and both
\* endpoints of the range the feature returns are the backend's endpoints
\* moved by exactly one line and one offset towards zero.
C20_Translation ==
    output.feature # "none" =>
        /\ ClientRange(output.feature, [start |-> Sent, end |-> Sent]).start
              = input.position
        /\ output.range.start.line + 1 = input.range.start.line
        /\ output.range.start.character + 1 = input.range.start.offset
        /\ output.range.end.line + 1 = input.range.end.line
        /\ output.range.end.character + 1 = input.range.end.offset

C20_Witness ==
    /\ output.feature = "diagnostics"
    /\ input.range.start = [line |-> 5, offset |-> 10]
    /\ output.range.start = [line |-> 4, character |-> 9]

\* C23: for every absolute path in normal form, with "%", "#", "?", space or
\* any other character in it, the path of the URI of the path is the path
\* itself, and the URI of that path is the same URI again.
C23_FileIdentity ==
    (output.feature = "path" /\ Resolve(input.path) = input.path) =>
        /\ output.back = input.path
        /\ output.again = output.uri

\* C21: every diagnostic of every emission has the severity that the fixed
\* mapping gives to the category of the backend record it was made from:
\* error 1, warning 2, suggestion 3, message 4, for every kind of event.
C21_SeverityMapping ==
    output.feature = "message" =>
        \A n \in DOMAIN output.emitted :
            \A k \in DOMAIN output.emitted[n].diagnostics :
                <<input.message.diagnostics[k].category,
                  output.emitted[n].diagnostics[k].severity>>
                    \in {<<"error", 1>>, <<"warning", 2>>, <<"suggestion", 3>>,
                         <<"message", 4>>}

C21_Witness ==
    /\ output.feature = "message"
    /\ input.message.event = "suggestionDiag"
    /\ Len(output.emitted) = 1
    /\ Len(output.emitted[1].diagnostics) = 2
    /\ output.emitted[1].diagnostics[1].severity = 3
    /\ output.emitted[1].diagnostics[2].severity = 4

\* C24: a backend event named semanticDiag, syntaxDiag or suggestionDiag that
\* carries a file produces exactly one 'diagnostics' emission, keyed by the URI
\* of the file, with one translated diagnostic per backend record in the same
\* order; any other event, any response and a diagnostics event without a file
\* produce no emission.
C24_DiagnosticSurface ==
    output.feature = "message" =>
        LET m == input.message
        IN  IF /\ m.type = "event"
               /\ m.event \in {"semanticDiag", "syntaxDiag", "suggestionDiag"}
               /\ m.file # <<>>
            THEN /\ Len(output.emitted) = 1
                 /\ output.emitted[1].name = "diagnostics"
                 /\ output.emitted[1].uri = <<"file://">> \o m.file
                 /\ Len(output.emitted[1].diagnostics) = Len(m.diagnostics)
                 /\ \A k \in 1..Len(m.diagnostics) :
                       /\ output.emitted[1].diagnostics[k].message
                             = m.diagnostics[k].text
                       /\ output.emitted[1].diagnostics[k].range.start.line + 1
                             = m.diagnostics[k].start.line
                       /\ output.emitted[1].diagnostics[k].range.end.character + 1
                             = m.diagnostics[k].end.offset
            ELSE output.emitted = <<>>

C24_Witness ==
    /\ output.feature = "message"
    /\ input.message.type = "event"
    /\ input.message.event = "semanticDiag"
    /\ Len(output.emitted) = 1
    /\ Len(output.emitted[1].diagnostics) = 2
    /\ output.emitted[1].diagnostics[1].message = "m1"
    /\ output.emitted[1].diagnostics[2].message = "m2"

\* C22: every completion item gets the table's value when the backend kind is
\* a key of the table and the text kind 1 when it is not; the value is always
\* a completion-item-kind number.
C22_CompletionKindTotal ==
    output.feature = "completion" =>
        \A k \in 1..Len(input.entries) :
            /\ output.kinds[k].typeof = "number"
            /\ output.kinds[k].value \in 1..25
            /\ output.kinds[k].value =
                  IF input.entries[k] \in DOMAIN LSPCompletionItemKind
                  THEN LSPCompletionItemKind[input.entries[k]]
                  ELSE 1

\* C25: after every sequence of openFile, updateFile and closeFile calls, in
\* every session state and whatever becomes of the forwarded requests, the
\* open-document map holds exactly the documents that were opened and not
\* closed since, each with the text of its latest open or update.
C25_SnapshotLifecycle == OpenFilesMap = opened

\* C26: a getPackageInfo call for a package whose info is in the cache, made
\* when node_modules has no copy of the package and the registry cannot be
\* reached, returns the cached info and does not go to the network.
C26_OfflineOnceCached ==
    [][( /\ returned'.n = returned.n + 1
         /\ returned'.packageName \in DOMAIN cache
         /\ returned'.local = ""
         /\ returned'.registry = "unreachable" ) =>
            /\ returned'.info = cache[returned'.packageName].data
            /\ ~returned'.network]_vars

\* C27: every end() of an object that profile(name) returned returns a number
\* that is not negative, and calls debug exactly once, with the message
\* 'Profile: <name>' and a data object whose duration is that number followed
\* by 'ms'.
C27_ProfileEnd ==
    [][returned'.n = returned.n + 1 =>
          /\ returned'.value \in Nat
          /\ logged' = Append(logged,
                [message |-> <<"Profile: ", profilers[returned'.profiler].name>>,
                 data |-> [duration |-> <<returned'.value, "ms">>]])]_vars

\* C28: at most one restart timer is outstanding at any time, whatever the
\* sequence of exit events, explicit start() calls and timer firings.
C28_NoDoubleRestart == restartTimers <= 1

\* C29: when the new process has written one frame with a single-byte
\* payload and all of it has arrived, exactly that frame's envelope has been
\* decoded from the new process's output, whatever the previous process left
\* in the receive buffer when it exited.
C29_StaleOutputDiscarded ==
    ( /\ tsserver = 2
      /\ wire = <<>>
      /\ items[2] = [kind |-> "frame", env |-> "a"] ) =>
          dispatched = <<"a">>

\* C30: in every step that spawns a backend process, on the initial start and
\* on a restart, the configure request is written to the new process, and no
\* request written to that process has a smaller seq.
C30_HandshakeFirst ==
    [][Len(procs') > Len(procs) =>
          \E i \in DOMAIN promises' :
              /\ promises'[i].proc = Len(procs')
              /\ promises'[i].command = "configure"
              /\ \A j \in DOMAIN promises' :
                     promises'[j].proc = Len(procs') =>
                         promises'[i].seq <= promises'[j].seq]_vars

C32_BackendSerialization == wire = Framed(items)

\* C33: every envelope sent to the client is either a response, with an id and
\* exactly one of a result and an error (an error member that is null counts
\* as no error), or a notification, with a method and no id.
C33_EnvelopeShape ==
    \A k \in DOMAIN outbox :
        IF Has(outbox[k], "method")
        THEN ~Has(outbox[k], "id")
        ELSE /\ Has(outbox[k], "id")
             /\ Has(outbox[k], "result") # Has(outbox[k], "error")

\* C34: a diagnostics event is published with one diagnostic per record, and
\* every position in it has a line and a character that are not negative, also
\* when a record has a line or an offset of 0.
C34_DefensiveCoordinates ==
    output.feature = "message" =>
        /\ Len(output.emitted) = 1
        /\ Len(output.emitted[1].diagnostics) = Len(input.message.diagnostics)
        /\ \A k \in DOMAIN output.emitted[1].diagnostics :
              LET range == output.emitted[1].diagnostics[k].range
              IN  /\ range.start.line >= 0
                  /\ range.start.character >= 0
                  /\ range.end.line >= 0
                  /\ range.end.character >= 0

\* C35: once a stream of one or more consecutive Content-Length frames with
\* single-byte payloads has arrived, in whatever chunks, the framer of
\* part_007 has dispatched the envelope of each frame exactly once, in order.
C35_VariantFramer ==
    ( /\ wire = <<>>
      /\ \A k \in 1..Len(items) : items[k].env \in {"a", "b"} ) =>
          dispatched = EnvsOf(items, Len(items), "frame")

\* C36: at most one spawned backend process is alive, and the supervisor's
\* handle is set exactly when the most recently spawned process has neither
\* exited nor been killed.
C36_SingleLiveBackend ==
    /\ Cardinality({p \in 1..Len(procs) : procs[p].status = "alive"}) <= 1
    /\ (tsserver # NoProc) <=>
           (procs # <<>> /\ procs[Len(procs)].status = "alive")

\* C37: the seqs of the accepted requests that are not settled are exactly the
\* keys of the pending-request table.
C37_PendingMatchesUnsettled ==
    {promises[i].seq : i \in DOMAIN promises} = DOMAIN pendingRequests

\* C38: a step settles only requests that were not settled before it, each
\* with one outcome out of resolved, rejected, timeout and exited, and settles
\* every request it takes out of the unsettled ones; and every accepted
\* request is eventually settled, given that timers that are due fire.
C38_SettlesExactlyOnce ==
    /\ [][/\ \A o \in settled' :
                /\ o.id \in DOMAIN promises
                /\ o.id \notin DOMAIN promises'
                /\ o.kind \in {"resolved", "rejected", "timeout", "exited"}
                /\ \A o2 \in settled' : o2.id = o.id => o2 = o
          /\ \A i \in DOMAIN promises :
                i \notin DOMAIN promises' => \E o \in settled' : o.id = i]_vars
    /\ \A i \in 1..MaxReqs :
          (i \in DOMAIN promises) ~> (i \notin DOMAIN promises)

\* A request that was pending at shutdown() has been settled by its timer.
C38_Witness ==
    /\ inert
    /\ tsserver = NoProc
    /\ \E o \in settled : o.kind = "timeout"

\* C39: in a step that emits 'restarted' there is a backend process, and the
\* request a 'restarted' listener sends is accepted and written to that
\* process.
C39_UsableWhenRestarted ==
    [][("restarted" \in Range(emitted') /\ "restarted" \in listeners) =>
          /\ tsserver' # NoProc
          /\ \E i \in DOMAIN promises' :
                /\ promises'[i].origin = "listener"
                /\ promises'[i].proc = tsserver']_vars

\* C40: 'restarting' is emitted exactly in the steps that begin a restart and
\* 'restarted' exactly in the steps that end one, so the two events alternate,
\* starting with 'restarting'; no client-originated request is accepted in a
\* step that starts while a restart is in progress; and a restart in progress
\* is eventually ended by 'restarted' or by the 'error' of a respawn that did
\* not find the executable, given that the restart timer fires.
C40_LifecyclePairing ==
    /\ [][/\ ("restarting" \in Range(emitted')) <=> (~isRestarting /\ isRestarting')
          /\ ("restarted" \in Range(emitted')) <=> (isRestarting /\ ~isRestarting')
          /\ isRestarting =>
                \A i \in DOMAIN promises' :
                    i \notin DOMAIN promises => promises'[i].origin # "client"
          /\ (isRestarting /\ isRestarting' /\ spawnFailed' /\ ~spawnFailed) =>
                "error" \in Range(emitted')]_vars
    /\ isRestarting ~> (~isRestarting \/ spawnFailed)

\* A restart has ended: 'restarted' was emitted for a second process.
C40_Witness ==
    /\ "restarted" \in Range(emitted)
    /\ ~isRestarting
    /\ Len(procs) = 2
    /\ procs[2].restart

====
